---- MODULE Spec2Model ----
(***************************************************************************)
(* Crystal personal assistant (src/crystal.py): the intent router          *)
(* crystal_respond, its sub-parsers for lists and reminders, the three     *)
(* API wrappers and the two session transcripts.                           *)
(*                                                                         *)
(* Text is modelled as a sequence of tokens separated by single spaces: a  *)
(* word (with its letter case), a time token ("8", "8h", "8:30") or a date *)
(* token ("25/12", "25/12/2025").  A substring test of the source becomes  *)
(* a test for a contiguous run of tokens, and each regular expression is   *)
(* matched over tokens with Python's leftmost, lazy/greedy, backtracking   *)
(* order.  Literal pieces of the answers are "lit" tokens.                 *)
(***************************************************************************)
EXTENDS Integers, Sequences, FiniteSets, TLC

----------------------------------------------------------------------------
(* The records of the model                                                *)

\* a token of text: its kind ("w" word, "lit" literal, "t" time, "d" date), its
\* string, its letter case and up to three numbers
Token(k, s, up, a, b, c) == [k |-> k, s |-> s, up |-> up, a |-> a, b |-> b, c |-> c]
\* datetime.date and datetime.datetime
Date(y, m, d) == [y |-> y, m |-> m, d |-> d]
DateTime(date, hour, minute, second) == [date |-> date, hour |-> hour, minute |-> minute, second |-> second]
\* the hour and the am_pm_or_unknown label
HourMark(hour, am_pm) == [hour |-> hour, am_pm |-> am_pm]
\* the date parsed, or the ValueError raised
DateResult(err, start_date) == [err |-> err, start_date |-> start_date]
\* the groups of the three regular expressions
CreateMatch(ok, name, items_str) == [ok |-> ok, name |-> name, items_str |-> items_str]
AddMatch(ok, name, item) == [ok |-> ok, name |-> name, item |-> item]
Match(ok, title, when, time, marker) == [ok |-> ok, title |-> title, when |-> when, time |-> time, marker |-> marker]
\* an entry of results["items"]
ResultItem(title, snippet, link, mime) == [title |-> title, snippet |-> snippet, link |-> link, mime |-> mime]
\* what Google_Search returns: a list of items, a message (str) or None
SearchResult(type, items, message) == [type |-> type, items |-> items, message |-> message]
\* what an outbound call does: a reply, or an exception of the given classes
HttpOutcome(kind, classes, status) == [kind |-> kind, classes |-> classes, status |-> status]
\* an except clause and the answer it returns
Clause(cls, answer) == [cls |-> cls, answer |-> answer]
\* what crystal_respond did: the return statement reached, the text returned
\* and the outbound call made
Answer(route, text, call) == [route |-> route, text |-> text, call |-> call]
\* an outbound request
Call(api, arg, history) == [api |-> api, arg |-> arg, history |-> history]
\* an entry of the display transcript and of the model transcript
DisplayEntry(role, content) == [role |-> role, content |-> content]
ModelEntry(role, parts) == [role |-> role, parts |-> parts]

VARIABLES
    now,               \* datetime.datetime.now() read by the current run
    user_input,        \* the utterance of the current run
    crystal_response,  \* the answer of the current run
    route,             \* the return statement of crystal_respond that answered
    api_call,          \* the outbound call of the current run (or none)
    api_outcome,       \* what that call did: the reply or the exception raised
    messages,          \* st.session_state.messages
    gemini_history     \* st.session_state.gemini_history

vars == <<now, user_input, crystal_response, route, api_call, api_outcome, messages, gemini_history>>

----------------------------------------------------------------------------
(* Tokens and text                                                         *)

\* A word as typed: its lower-case form and its letter case
\* (0 lower case, 1 first letter upper case, 2 any other mix).
Word(str, case) == Token("w", str, case, 0, 0, 0)
W(str) == Word(str, 0)
\* A literal piece of an answer template.
Lit(str) == Token("lit", str, 0, 0, 0, 0)
\* A time token: form "" is "8", form "h" is "8h", form ":" is "8:30".
TimeTok(h, form, mi) == Token("t", form, 0, h, mi, 0)
\* A date token: form "dm" is "25/12", form "dmy" is "25/12/2025".
DateTok(dd, mm, yyyy) == Token("d", IF yyyy = 0 THEN "dm" ELSE "dmy", 0, dd, mm, yyyy)

Words(ss) == [i \in 1..Len(ss) |-> W(ss[i])]

\* str.lower()
lower(text) == [i \in 1..Len(text) |-> [text[i] EXCEPT !.up = 0]]

\* str.capitalize(): first character upper case, the rest lower case.
capitalize(text) ==
    [i \in 1..Len(text) |->
        IF i = 1 /\ text[i].k = "w" THEN [text[i] EXCEPT !.up = 1]
        ELSE [text[i] EXCEPT !.up = 0]]

\* phrase occurs in text at position i
OccursAt(phrase, text, i) ==
    /\ i >= 1
    /\ i + Len(phrase) - 1 <= Len(text)
    /\ \A j \in 1..Len(phrase) : text[i + j - 1] = phrase[j]

\* `phrase in text`
Contains(phrase, text) == \E i \in 1..Len(text) : OccursAt(phrase, text, i)

\* str.upper()
upper(text) == [i \in 1..Len(text) |-> [text[i] EXCEPT !.up = 2]]

\* text.replace(phrase, ""), scanning left to right without overlap.
RECURSIVE replace_empty(_, _)
replace_empty(text, phrase) ==
    IF text = <<>> THEN <<>>
    ELSE IF OccursAt(phrase, text, 1)
         THEN replace_empty(SubSeq(text, Len(phrase) + 1, Len(text)), phrase)
         ELSE <<Head(text)>> \o replace_empty(Tail(text), phrase)

\* text.split(phrase): the pieces between the occurrences of phrase.
RECURSIVE split_from(_, _, _)
split_from(text, phrase, acc) ==
    IF text = <<>> THEN <<acc>>
    ELSE IF OccursAt(phrase, text, 1)
         THEN <<acc>> \o split_from(SubSeq(text, Len(phrase) + 1, Len(text)), phrase, <<>>)
         ELSE split_from(Tail(text), phrase, Append(acc, Head(text)))
split(text, phrase) == split_from(text, phrase, <<>>)

\* sep.join(pieces)
RECURSIVE join(_, _)
join(sep, pieces) ==
    IF pieces = <<>> THEN <<>>
    ELSE IF Len(pieces) = 1 THEN pieces[1]
    ELSE pieces[1] \o sep \o join(sep, Tail(pieces))

DigitLit(n) == Lit(<<"0", "1", "2", "3", "4", "5", "6", "7", "8", "9">>[n + 1])
\* f"{n:02d}" and the %d, %m, %H, %M fields of strftime
Fmt02(n) == <<DigitLit((n \div 10) % 10), DigitLit(n % 10)>>
\* the %Y field of strftime
Fmt04(n) == <<DigitLit((n \div 1000) % 10), DigitLit((n \div 100) % 10)>> \o Fmt02(n % 100)

----------------------------------------------------------------------------
(* datetime: the proleptic Gregorian calendar of the Python library        *)

IsLeap(y) == (y % 4 = 0) /\ ((y % 100 # 0) \/ (y % 400 = 0))

DaysInMonth(y, m) ==
    IF m = 2 THEN (IF IsLeap(y) THEN 29 ELSE 28)
    ELSE IF m \in {4, 6, 9, 11} THEN 30 ELSE 31

ValidDate(y, m, d) == y >= 1 /\ y <= 9999 /\ m \in 1..12 /\ d >= 1 /\ d <= DaysInMonth(y, m)

RECURSIVE DaysBeforeMonth(_, _)
DaysBeforeMonth(y, m) == IF m = 1 THEN 0 ELSE DaysBeforeMonth(y, m - 1) + DaysInMonth(y, m - 1)

\* date.toordinal()
toordinal(dt) ==
    ((dt.y - 1) * 365) + ((dt.y - 1) \div 4) - ((dt.y - 1) \div 100) + ((dt.y - 1) \div 400)
    + DaysBeforeMonth(dt.y, dt.m) + dt.d

\* date.weekday(): Monday is 0
weekday(dt) == (toordinal(dt) + 6) % 7

NextDay(dt) ==
    IF dt.d < DaysInMonth(dt.y, dt.m) THEN Date(dt.y, dt.m, dt.d + 1)
    ELSE IF dt.m < 12 THEN Date(dt.y, dt.m + 1, 1)
    ELSE Date(dt.y + 1, 1, 1)

\* date + datetime.timedelta(days=n)
RECURSIVE AddDays(_, _)
AddDays(dt, n) == IF n = 0 THEN dt ELSE AddDays(NextDay(dt), n - 1)

\* date < date
DateLess(d1, d2) ==
    \/ d1.y < d2.y
    \/ d1.y = d2.y /\ d1.m < d2.m
    \/ d1.y = d2.y /\ d1.m = d2.m /\ d1.d < d2.d

\* a variant of strftime_dmY that writes the month before the day ("%m/%d/%Y")
strftime_mdY(dt) == Fmt02(dt.m) \o <<Lit("/")>> \o Fmt02(dt.d) \o <<Lit("/")>> \o Fmt04(dt.y)

\* strftime("%d/%m/%Y")
strftime_dmY(dt) == Fmt02(dt.d) \o <<Lit("/")>> \o Fmt02(dt.m) \o <<Lit("/")>> \o Fmt04(dt.y)

\* strftime("%H:%M")
strftime_HM(t) == Fmt02(t.hour) \o <<Lit(":")>> \o Fmt02(t.minute)

----------------------------------------------------------------------------
(* Python values                                                           *)

\* None, and the empty string: both are false in `if response:`
None == <<>>
Truthy(r) == r # <<>>

Min(S) == CHOOSE x \in S : \A y \in S : x <= y

----------------------------------------------------------------------------
(* create_or_add_list_item                                                 *)

KW_CRIAR_LISTA_DE == Words(<<"criar", "lista", "de">>)
KW_A_LISTA_DE == Words(<<"à", "lista", "de">>)

\* items_str.split(' e '): the separator is the word "e" with a space on both
\* sides, so an "e" that opens or closes the text, or that directly follows a
\* separator (whose trailing space is already consumed), is part of an item.
RECURSIVE split_e(_, _, _)
split_e(text, acc, fresh) ==
    IF text = <<>> THEN <<acc>>
    ELSE IF Head(text) = W("e") /\ ~fresh /\ Len(text) > 1
         THEN <<acc>> \o split_e(Tail(text), <<>>, TRUE)
         ELSE split_e(Tail(text), Append(acc, Head(text)), FALSE)

\* [item.strip() for item in ... if item.strip()]
RECURSIVE non_empty(_)
non_empty(pieces) ==
    IF pieces = <<>> THEN <<>>
    ELSE IF Head(pieces) = <<>> THEN non_empty(Tail(pieces))
    ELSE <<Head(pieces)>> \o non_empty(Tail(pieces))

\* r"criar lista de (tarefas|compras|(.+?)) com (.+)" tried at position i: the
\* name lengths n for which " com " and at least one more token follow.  The
\* alternatives "tarefas" and "compras" are the one-token case of the lazy (.+?).
CreateNameLens(text, i) ==
    IF ~OccursAt(KW_CRIAR_LISTA_DE, text, i) THEN {}
    ELSE {n \in 1..Len(text) :
             /\ i + 3 + n < Len(text)
             /\ text[i + 3 + n] = W("com")}

\* the groups of the match that starts at i with a name of n tokens
create_groups(text, i, n) ==
    CreateMatch(TRUE, SubSeq(text, i + 3, i + 2 + n), SubSeq(text, i + 4 + n, Len(text)))

\* a variant of create_at whose name group is greedy: as long as possible
create_at_greedy(text, i) ==
    create_groups(text, i, CHOOSE n \in CreateNameLens(text, i) : \A m \in CreateNameLens(text, i) : m <= n)

create_at(text, i) == create_groups(text, i, Min(CreateNameLens(text, i)))

create_from(text, starts) ==
    IF starts = {} THEN CreateMatch(FALSE, <<>>, <<>>)
    ELSE create_at(text, Min(starts))

\* re.search: the leftmost position with a match, the lazy name as short as possible.
match_create(text) == create_from(text, {i \in 1..Len(text) : CreateNameLens(text, i) # {}})

\* r"adicionar (.+?) à lista de (tarefas|compras|(.+))" tried at position i: the
\* lazy item lengths n after which "à lista de" and a name follow.
AddItemLens(text, i) ==
    IF ~(i <= Len(text) /\ text[i] = W("adicionar")) THEN {}
    ELSE {n \in 1..Len(text) :
             /\ OccursAt(KW_A_LISTA_DE, text, i + 1 + n)
             /\ i + 1 + n + 3 <= Len(text)}

\* the groups of the match that starts at i with an item of n tokens; the list
\* name starts at token i + n + 4
add_groups(text, i, n) ==
    AddMatch(TRUE,
             IF text[i + n + 4] \in {W("tarefas"), W("compras")}
             THEN <<text[i + n + 4]>>
             ELSE SubSeq(text, i + n + 4, Len(text)),
             SubSeq(text, i + 1, i + n))

add_at(text, i) == add_groups(text, i, Min(AddItemLens(text, i)))

add_from(text, starts) ==
    IF starts = {} THEN AddMatch(FALSE, <<>>, <<>>)
    ELSE add_at(text, Min(starts))

match_add(text) == add_from(text, {i \in 1..Len(text) : AddItemLens(text, i) # {}})

MSG_LIST_NOT_UNDERSTOOD ==
    <<Lit("Não entendi o nome da lista ou os itens. Tente 'criar lista de compras com leite e pão'.")>>
MSG_ADD_NOT_UNDERSTOOD ==
    <<Lit("Não entendi o item a adicionar ou o nome da lista. Tente 'adicionar ovos à lista de compras'.")>>

\* lines 157-163: the answer to a creation command
list_created(list_name, items) ==
    IF list_name = <<>> \/ items = <<>>
    THEN MSG_LIST_NOT_UNDERSTOOD
    ELSE <<Lit("Criei a lista '")>> \o capitalize(list_name)
         \o <<Lit("' com os itens: ")>> \o join(<<Lit(", ")>>, items)
         \o <<Lit(". (Simulado)")>>

\* lines 167-172: the answer to an addition command
list_added(item_to_add, list_name) ==
    IF item_to_add = <<>> \/ list_name = <<>>
    THEN MSG_ADD_NOT_UNDERSTOOD
    ELSE <<Lit("Adicionei '")>> \o item_to_add \o <<Lit("' à sua lista de '")>>
         \o capitalize(list_name) \o <<Lit("'. (Simulado)")>>

list_answer(mc, ma) ==
    IF mc.ok THEN list_created(mc.name, non_empty(split_e(mc.items_str, <<>>, TRUE)))
    ELSE IF ma.ok THEN list_added(ma.item, ma.name)
    ELSE None

create_or_add_list_item(input) == list_answer(match_create(lower(input)), match_add(lower(input)))

----------------------------------------------------------------------------
(* create_reminder_or_appointment                                          *)

\* (?:me lembre de|agendar|criar lembrete para)
REMINDER_PREFIXES ==
    {Words(<<"me", "lembre", "de">>), Words(<<"agendar">>), Words(<<"criar", "lembrete", "para">>)}

\* (amanhã|hoje|quarta-feira|terça-feira|quinta-feira|sexta-feira|sábado|domingo|dia ...)
REGEX_DAY_WORDS ==
    {W("amanhã"), W("hoje"), W("quarta-feira"), W("terça-feira"), W("quinta-feira"),
     W("sexta-feira"), W("sábado"), W("domingo")}

\* (da manhã|da tarde|da noite|pm|am)
REGEX_MARKERS ==
    {Words(<<"da", "manhã">>), Words(<<"da", "tarde">>), Words(<<"da", "noite">>),
     Words(<<"pm">>), Words(<<"am">>)}

\* the optional last group at position q: the marker there, or no group
MarkerAt(text, q) ==
    IF \E mk \in REGEX_MARKERS : OccursAt(mk, text, q)
    THEN CHOOSE mk \in REGEX_MARKERS : OccursAt(mk, text, q)
    ELSE <<>>

NoMatch == Match(FALSE, <<>>, <<>>, TimeTok(0, "", 0), <<>>)

\* " *(?:às|as)? *(\d{1,2}(?:h|\:\d{2})?)" from position q: where the time token is
TimePos(text, q) ==
    IF q <= Len(text) /\ text[q] \in {W("às"), W("as")} THEN q + 1 ELSE q

HasTimeAt(text, q) == TimePos(text, q) <= Len(text) /\ text[TimePos(text, q)].k = "t"

\* the groups of a match: the title, the day reference that ends before q, the
\* time token at or after q, and the marker after it
Groups(text, title, when, q) ==
    Match(TRUE, title, when, text[TimePos(text, q)], MarkerAt(text, TimePos(text, q) + 1))

\* The rest of the regex after the title, tried with the day reference at p.
\* A day word, or "dia D/M[/Y]", then the time.  When "dia D/M[/Y]" is followed by
\* no time and the month has two digits, the regex backtracks: the month keeps
\* its first digit and the second digit is taken as the time.
TailAt(text, title, p) ==
    IF p > Len(text) THEN NoMatch
    ELSE IF text[p] \in REGEX_DAY_WORDS /\ HasTimeAt(text, p + 1)
    THEN Groups(text, title, <<text[p]>>, p + 1)
    ELSE IF text[p] = W("dia") /\ p + 1 <= Len(text) /\ text[p + 1].k = "d"
    THEN IF HasTimeAt(text, p + 2)
         THEN Groups(text, title, <<text[p], text[p + 1]>>, p + 2)
         ELSE IF text[p + 1].b >= 10
         THEN Match(TRUE, title,
                    <<text[p], DateTok(text[p + 1].a, text[p + 1].b \div 10, 0)>>,
                    TimeTok(text[p + 1].b % 10, "", 0),
                    IF text[p + 1].s = "dm" THEN MarkerAt(text, p + 2) ELSE <<>>)
         ELSE NoMatch
    ELSE NoMatch

\* the regex tried at position i with a title of n tokens after the prefix pre
MatchWith(text, i, pre, n) ==
    IF OccursAt(pre, text, i)
    THEN TailAt(text, SubSeq(text, i + Len(pre), i + Len(pre) + n - 1), i + Len(pre) + n)
    ELSE NoMatch

\* the regex tried at start position i: the lazy title lengths that let it match
TitleLens(text, i) ==
    IF \A pre \in REMINDER_PREFIXES : ~OccursAt(pre, text, i) THEN {}
    ELSE {n \in 1..(Len(text) - i) : \E pre \in REMINDER_PREFIXES : MatchWith(text, i, pre, n).ok}

reminder_at(text, i, n) ==
    MatchWith(text, i, CHOOSE pre \in REMINDER_PREFIXES : MatchWith(text, i, pre, n).ok, n)

reminder_from(text, starts) ==
    IF starts = {} THEN NoMatch
    ELSE reminder_at(text, Min(starts), Min(TitleLens(text, Min(starts))))

\* re.search(...): leftmost start, shortest title
reminder_match(text) == reminder_from(text, {i \in 1..Len(text) : TitleLens(text, i) # {}})

\* weekdays = ["segunda-feira", ..., "domingo"]; day_map = {d: i for i, d in enumerate(weekdays)}
weekdays ==
    <<W("segunda-feira"), W("terça-feira"), W("quarta-feira"), W("quinta-feira"),
      W("sexta-feira"), W("sábado"), W("domingo")>>
day_map(w) == (CHOOSE i \in 1..Len(weekdays) : weekdays[i] = w) - 1
in_day_map(w) == \E i \in 1..Len(weekdays) : weekdays[i] = w

\* datetime.datetime.strptime(time_str.replace('h', ':00'), "%H:%M") succeeds
strptime_HM_ok(tok) == tok.s \in {"h", ":"} /\ tok.a <= 23 /\ tok.b <= 59

MinuteOfDay(h, mi) == h * 60 + mi

\* lines 198-204: "dia D/M[/Y]", the year defaulting to this year, a date
\* before today moved to next year; err when strptime or replace raises ValueError
parse_dia(d, m, year, today) ==
    IF ~ValidDate(year, m, d) THEN DateResult(TRUE, today)
    ELSE IF DateLess(Date(year, m, d), today)
    THEN IF ValidDate(today.y + 1, m, d)
         THEN DateResult(FALSE, Date(today.y + 1, m, d))
         ELSE DateResult(TRUE, today)
    ELSE DateResult(FALSE, Date(year, m, d))

\* lines 212-217: a same-day match moves a week ahead when the time as written
\* parses with "%H:%M" and is not after the current time
roll_week(days_diff, time_tok, current_datetime) ==
    IF /\ days_diff = 0
       /\ strptime_HM_ok(time_tok)
       /\ MinuteOfDay(time_tok.a, time_tok.b)
             <= MinuteOfDay(current_datetime.hour, current_datetime.minute)
    THEN days_diff + 7
    ELSE days_diff

\* lines 209-218
parse_weekday(target_weekday, time_tok, current_datetime) ==
    AddDays(current_datetime.date,
            roll_week((target_weekday - weekday(current_datetime.date) + 7) % 7,
                      time_tok, current_datetime))

\* "Parsing da data": the start_date, or err when a ValueError was raised
parse_date(when_str, time_tok, current_datetime) ==
    IF Contains(<<W("amanhã")>>, when_str)
    THEN DateResult(FALSE, AddDays(current_datetime.date, 1))
    ELSE IF Contains(<<W("hoje")>>, when_str)
    THEN DateResult(FALSE, current_datetime.date)
    ELSE IF Contains(<<W("dia")>>, when_str)
    THEN parse_dia(when_str[2].a, when_str[2].b,
                   IF when_str[2].s = "dm" THEN current_datetime.date.y ELSE when_str[2].c,
                   current_datetime.date)
    ELSE IF in_day_map(when_str[1])
    THEN DateResult(FALSE, parse_weekday(day_map(when_str[1]), time_tok, current_datetime))
    ELSE DateResult(FALSE, current_datetime.date)

\* `"pm" in am_pm_str` and `"am" in am_pm_str`: of the five markers the regex
\* admits only "pm" holds the letters "pm" and only "am" the letters "am"
\* ("da manhã" has a space between its "a" and its "m").
has_pm(am_pm_str) == am_pm_str = Words(<<"pm">>)
has_am(am_pm_str) == am_pm_str = Words(<<"am">>)

\* lines 228-231: the hour under an explicit am/pm marker
apply_marker(hour, am_pm_str) ==
    IF am_pm_str = <<>> THEN HourMark(hour, <<>>)
    ELSE IF has_pm(am_pm_str) /\ hour < 12 THEN HourMark(hour + 12, upper(Words(<<"pm">>)))
    ELSE IF has_am(am_pm_str) /\ hour = 12 THEN HourMark(0, upper(Words(<<"am">>)))
    ELSE HourMark(hour, upper(am_pm_str))

\* a variant of pm_heuristic that does not ask whether the reminder is for today
pm_heuristic_any_day(marked, am_pm_str, start_date, current_datetime) ==
    IF am_pm_str = <<>> /\ marked.hour < current_datetime.hour /\ marked.hour <= 12
    THEN HourMark(marked.hour + 12, upper(Words(<<"pm">>)))
    ELSE marked

\* lines 233-236: with no marker, on today's date, an hour before the current
\* hour and at most 12 is moved to the afternoon
pm_heuristic(marked, am_pm_str, start_date, current_datetime) ==
    IF /\ am_pm_str = <<>>
       /\ start_date = current_datetime.date
       /\ marked.hour < current_datetime.hour
       /\ marked.hour <= 12
    THEN HourMark(marked.hour + 12, upper(Words(<<"pm">>)))
    ELSE marked

\* "Parsing do tempo", lines 228-236: the hour after the am/pm marker and the heuristic
parse_hour(time_tok, am_pm_str, start_date, current_datetime) ==
    pm_heuristic(apply_marker(time_tok.a, am_pm_str), am_pm_str, start_date, current_datetime)

\* a variant of DateTimeLess that compares the dates and forgets the time of day
DateTimeLess_dates(date, hour, minute, current_datetime) == DateLess(date, current_datetime.date)

\* combined_dt < current_datetime
DateTimeLess(date, hour, minute, current_datetime) ==
    \/ DateLess(date, current_datetime.date)
    \/ /\ date = current_datetime.date
       /\ \/ MinuteOfDay(hour, minute) < MinuteOfDay(current_datetime.hour, current_datetime.minute)
          \/ /\ MinuteOfDay(hour, minute) = MinuteOfDay(current_datetime.hour, current_datetime.minute)
             /\ 0 < current_datetime.second

MSG_PAST ==
    <<Lit("Desculpe, não consigo criar lembretes para o passado. Por favor, especifique uma data e/ou hora futura.")>>
MSG_NOT_UNDERSTOOD ==
    <<Lit("Não entendi a data ou hora do lembrete. Por favor, especifique de forma mais clara (ex: 'amanhã às 10h', 'dia 25/12 às 14:30').")>>

\* f"Lembrete criado: '{title.capitalize()}' para {date_display} às {time_display}{am_pm_display}. (Simulado)"
reminder_created(title, start_date, hour, minute, am_pm_or_unknown) ==
    <<Lit("Lembrete criado: '")>> \o capitalize(title) \o <<Lit("' para ")>>
    \o strftime_dmY(start_date) \o <<Lit(" às ")>>
    \o Fmt02(hour) \o <<Lit(":")>> \o Fmt02(minute) \o <<Lit(":00")>>
    \o (IF am_pm_or_unknown # <<>> THEN <<Lit(" (")>> \o am_pm_or_unknown \o <<Lit(")")>> ELSE <<>>)
    \o <<Lit(". (Simulado)")>>

\* lines 238-248: datetime.datetime(...) raises ValueError for an hour above 23
\* or a minute above 59; a moment before now is refused
reminder_at_time(title, start_date, h, minute, current_datetime) ==
    IF h.hour > 23 \/ minute > 59 THEN MSG_NOT_UNDERSTOOD
    ELSE IF DateTimeLess(start_date, h.hour, minute, current_datetime) THEN MSG_PAST
    ELSE reminder_created(title, start_date, h.hour, minute, h.am_pm)

reminder_on_date(match, d, current_datetime) ==
    IF d.err THEN MSG_NOT_UNDERSTOOD
    ELSE reminder_at_time(match.title, d.start_date,
                          parse_hour(match.time, match.marker, d.start_date, current_datetime),
                          match.time.b, current_datetime)

reminder_answer(match, current_datetime) ==
    IF ~match.ok THEN None
    ELSE reminder_on_date(match, parse_date(match.when, match.time, current_datetime), current_datetime)

create_reminder_or_appointment(input, current_datetime) ==
    reminder_answer(reminder_match(lower(input)), current_datetime)

----------------------------------------------------------------------------
(* The outbound calls and their outcomes                                   *)

\* What requests.get(...), raise_for_status() and response.json() can do.  A
\* raised exception is the set of classes it is an instance of: in the requests
\* library ConnectTimeout derives from both ConnectionError and Timeout, and
\* its JSONDecodeError from both RequestException and json.JSONDecodeError.
EXC_HTTPError == {"HTTPError", "RequestException", "Exception"}
EXC_ConnectionError == {"ConnectionError", "RequestException", "Exception"}
EXC_ConnectTimeout == {"ConnectTimeout", "ConnectionError", "Timeout", "RequestException", "Exception"}
EXC_ReadTimeout == {"ReadTimeout", "Timeout", "RequestException", "Exception"}
EXC_TooManyRedirects == {"TooManyRedirects", "RequestException", "Exception"}
EXC_JSONDecodeError == {"JSONDecodeError", "RequestException", "json.JSONDecodeError", "Exception"}
EXC_KeyError == {"KeyError", "Exception"}

HTTP_FAILURES ==
    {HttpOutcome("http_error", EXC_HTTPError, st) : st \in {400, 401, 403, 404, 500}}
    \cup {HttpOutcome("connection_error", EXC_ConnectionError, 0),
          HttpOutcome("connect_timeout", EXC_ConnectTimeout, 0),
          HttpOutcome("read_timeout", EXC_ReadTimeout, 0),
          HttpOutcome("request_error", EXC_TooManyRedirects, 0),
          HttpOutcome("malformed_json", EXC_JSONDecodeError, 0),
          HttpOutcome("malformed_fields", EXC_KeyError, 0)}

WEATHER_OUTCOMES ==
    HTTP_FAILURES \cup {HttpOutcome(k, {}, 200) : k \in {"cod_200", "cod_404", "cod_other"}}

SEARCH_OUTCOMES ==
    HTTP_FAILURES \cup {HttpOutcome(k, {}, 200) :
                           k \in {"items_html", "items_no_mime", "no_items", "error_403", "error_other"}}

\* What start_chat(...).send_message(...) and response.text can do.
GEMINI_OUTCOMES ==
    {HttpOutcome("reply", {}, 200),
     HttpOutcome("blocked_prompt", {"BlockedPromptException", "Exception"}, 0),
     HttpOutcome("api_error", {"APIError", "Exception"}, 0),
     HttpOutcome("deadline_exceeded", {"DeadlineExceeded", "Exception"}, 0)}

\* try/except: the answer of the first except clause, in source order, whose
\* class the exception is an instance of; RAISED when no clause catches it.
RAISED == <<Lit("<unhandled exception>")>>
RECURSIVE except_chain(_, _)
except_chain(classes, clauses) ==
    IF clauses = <<>> THEN RAISED
    ELSE IF Head(clauses).cls \in classes THEN Head(clauses).answer
    ELSE except_chain(classes, Tail(clauses))

Fmt03(n) == <<DigitLit((n \div 100) % 10)>> \o Fmt02(n % 100)

MSG_WEATHER_TIMEOUT == <<Lit("A requisição de tempo demorou muito e expirou. Tente novamente.")>>
MSG_WEATHER_CONNECTION == <<Lit("Não foi possível conectar ao serviço de tempo. Verifique sua conexão com a internet.")>>
MSG_WEATHER_NOT_FOUND == <<Lit("Não consegui encontrar informações de tempo para essa cidade. Verifique o nome e tente novamente.")>>

get_weather(city, out) ==
    IF out.classes = {}
    THEN IF out.kind = "cod_200"
         THEN <<Lit("O tempo em ")>> \o capitalize(city)
              \o <<Lit(" é de "), Lit("{temperature:.1f}"), Lit("°C com "), Lit("{description.capitalize()}"), Lit(".")>>
         ELSE IF out.kind = "cod_404" THEN MSG_WEATHER_NOT_FOUND
         ELSE <<Lit("Erro ao buscar o tempo: "), Lit("{message}"), Lit(". Código: "), Lit("{cod}")>>
    ELSE except_chain(out.classes,
           <<Clause("HTTPError",
                    IF out.status = 401
                    THEN <<Lit("Erro de autenticação na API do tempo. Verifique sua OPENWEATHER_API_KEY.")>>
                    ELSE IF out.status = 404 THEN MSG_WEATHER_NOT_FOUND
                    ELSE <<Lit("Erro HTTP ao buscar o tempo: ")>> \o Fmt03(out.status) \o <<Lit(" - "), Lit("{reason}")>>),
             Clause("ConnectionError", MSG_WEATHER_CONNECTION),
             Clause("Timeout", MSG_WEATHER_TIMEOUT),
             Clause("RequestException",
                    <<Lit("Erro de conexão ao buscar o tempo. Verifique sua internet ou tente mais tarde.")>>),
             Clause("json.JSONDecodeError",
                    <<Lit("Erro ao processar a resposta do serviço de tempo. O formato dos dados está inválido.")>>),
             Clause("Exception",
                    <<Lit("Ocorreu um erro inesperado ao buscar o tempo. Tente novamente.")>>)>>)

MSG_SEARCH_TIMEOUT == <<Lit("A requisição de busca demorou muito e expirou. Tente novamente.")>>
MSG_SEARCH_CONNECTION == <<Lit("Não foi possível conectar ao serviço de busca. Verifique sua conexão com a internet.")>>
MSG_SEARCH_ACCESS ==
    <<Lit("Erro de acesso à API de busca. Verifique se sua Google Search_API_KEY e GOOGLE_CSE_ID estão corretos e se você habilitou a API Custom Search no Google Cloud.")>>

\* The value Google_Search returns: a list of items, a message, or None.
SearchItems(items) == SearchResult("list", items, <<>>)
SearchStr(text) == SearchResult("str", <<>>, text)
SearchNone == SearchResult("None", <<>>, <<>>)

\* one entry of results["items"]
Item(has_mime) ==
    ResultItem(<<Lit("{title}")>>, <<Lit("{snippet}")>>, <<Lit("{link}")>>,
               IF has_mime THEN <<Lit("text/html")>> ELSE <<>>)

Google_Search(query, out) ==
    IF out.classes = {}
    THEN IF out.kind = "items_html" THEN SearchItems(<<Item(TRUE)>>)
         ELSE IF out.kind = "items_no_mime" THEN SearchItems(<<Item(FALSE)>>)
         ELSE IF out.kind = "error_403" THEN SearchStr(MSG_SEARCH_ACCESS)
         ELSE IF out.kind = "error_other"
         THEN SearchStr(<<Lit("Erro da API de busca: "), Lit("{error_message}"), Lit(" (Código: "), Lit("{error_code}"), Lit(")")>>)
         ELSE SearchNone
    ELSE SearchStr(except_chain(out.classes,
           <<Clause("HTTPError",
                    IF out.status = 400
                    THEN <<Lit("Requisição de busca inválida. O parâmetro 'q' (query) pode estar faltando ou incorreto.")>>
                    ELSE IF out.status = 403 THEN MSG_SEARCH_ACCESS
                    ELSE <<Lit("Erro HTTP ao realizar a busca: ")>> \o Fmt03(out.status) \o <<Lit(" - "), Lit("{reason}")>>),
             Clause("ConnectionError", MSG_SEARCH_CONNECTION),
             Clause("Timeout", MSG_SEARCH_TIMEOUT),
             Clause("RequestException",
                    <<Lit("Erro de conexão ao realizar a busca. Verifique sua internet ou tente mais tarde.")>>),
             Clause("json.JSONDecodeError",
                    <<Lit("Erro ao processar a resposta do serviço de busca. O formato dos dados está inválido.")>>),
             Clause("Exception",
                    <<Lit("Ocorreu um erro inesperado ao realizar a busca. Tente novamente.")>>)>>))

\* response.text of the model's reply
GEMINI_REPLY == <<Lit("{response.text}")>>

get_gemini_response(prompt_text, chat_history, out) ==
    IF out.classes = {} THEN GEMINI_REPLY
    ELSE except_chain(out.classes,
           <<Clause("BlockedPromptException",
                    <<Lit("Sua solicitação foi bloqueada devido a políticas de segurança. Por favor, tente algo diferente.")>>),
             Clause("APIError",
                    <<Lit("Desculpe, tive um problema ao me comunicar com a IA. Pode tentar novamente?")>>),
             Clause("Exception",
                    <<Lit("Desculpe, algo deu errado enquanto eu pensava. Tente novamente mais tarde.")>>)>>)

\* no outbound request
NoCall == Call("none", <<>>, <<>>)

\* `item.get('link') and item.get('mime') and 'text/html' in item['mime']`
is_html(item) == item.link # <<>> /\ item.mime = <<Lit("text/html")>>

\* lines 259-273 on the value the search returned
news_answer(query, search_results) ==
    IF search_results.type = "str" THEN search_results.message
    ELSE IF search_results.type = "None" \/ search_results.items = <<>>
    THEN <<Lit("Não encontrei notícias ou artigos sobre '")>> \o query
         \o <<Lit("'. Tente um termo diferente.")>>
    ELSE IF \E i \in 1..Len(search_results.items) : is_html(search_results.items[i])
    THEN <<Lit("Encontrei notícias sobre '")>> \o query \o <<Lit("'. O primeiro resultado é: '")>>
         \o search_results.items[1].title \o <<Lit("' ([Link](")>>
         \o search_results.items[Min({i \in 1..Len(search_results.items) :
                                         is_html(search_results.items[i])})].link
         \o <<Lit(")). Se eu pudesse acessar o conteúdo, faria um resumo para você! (Simulado)")>>
    ELSE <<Lit("Não consegui encontrar um link de artigo HTML válido para resumir.")>>

\* line 258 reads `Google Search(query)`: the call of Google_Search(query)
get_news_summary(query, out) == news_answer(query, Google_Search(query, out))

----------------------------------------------------------------------------
(* crystal_respond                                                         *)

KW_NOTICIAS_SOBRE == Words(<<"notícias", "sobre">>)
KW_RESUMO_DE_ARTIGO_SOBRE == Words(<<"resumo", "de", "artigo", "sobre">>)
KW_RESUMIR_ARTIGO == Words(<<"resumir", "artigo">>)
KW_TEMPO_EM == Words(<<"tempo", "em">>)
KW_QUE_DIA_E_HOJE == Words(<<"que", "dia", "é", "hoje">>)
KW_DATA_DE_HOJE == Words(<<"data", "de", "hoje">>)
KW_QUE_HORAS_SAO == Words(<<"que", "horas", "são">>)
KW_PESQUISAR_POR == Words(<<"pesquisar", "por">>)
KW_PESQUISE_POR == Words(<<"pesquise", "por">>)
KW_PROCURE_POR == Words(<<"procure", "por">>)

\* lines 315-324 on the value the search returned
search_answer(results) ==
    IF results.type = "list" /\ results.items # <<>>
    THEN <<Lit("Encontrei: **")>> \o results.items[1].title \o <<Lit("** - ")>>
         \o results.items[1].snippet \o <<Lit(" ([Link](")>> \o results.items[1].link
         \o <<Lit("))")>>
    ELSE IF results.type = "str" THEN results.message
    ELSE <<Lit("Não encontrei resultados para sua busca na internet. Tente reformular a pergunta.")>>

\* lines 313-326; line 314 reads `(Google Search_query)`: the call of
\* Google_Search(search_query)
search_for(search_query, out) ==
    IF search_query = <<>>
    THEN Answer("search", <<Lit("Por favor, especifique o que você gostaria de pesquisar na internet.")>>, NoCall)
    ELSE Answer("search", search_answer(Google_Search(search_query, out)),
                Call("search", search_query, <<>>))

\* lines 311-312: the web search branch
respond_search(user_input_lower, out) ==
    search_for(replace_empty(replace_empty(replace_empty(user_input_lower,
                   KW_PESQUISAR_POR), KW_PESQUISE_POR), KW_PROCURE_POR), out)

\* lines 297-298
news_for(query, out) ==
    IF query # <<>>
    THEN Answer("news", get_news_summary(query, out), Call("search", query, <<>>))
    ELSE Answer("news", <<Lit("Por favor, especifique sobre o que você quer notícias ou qual artigo resumir.")>>, NoCall)

\* lines 295-296: the news branch
respond_news(user_input_lower, out) ==
    news_for(replace_empty(replace_empty(replace_empty(user_input_lower,
                 KW_NOTICIAS_SOBRE), KW_RESUMO_DE_ARTIGO_SOBRE), KW_RESUMIR_ARTIGO), out)

\* lines 303-304
weather_for(city, out) ==
    IF city # <<>>
    THEN Answer("weather", get_weather(city, out), Call("weather", city, <<>>))
    ELSE Answer("weather", <<Lit("Por favor, especifique a cidade para a qual você quer o tempo.")>>, NoCall)

\* user_input_lower.split("tempo em")[-1]
last_piece(pieces) == pieces[Len(pieces)]

\* lines 301-302: the weather branch
respond_weather(user_input_lower, out) ==
    weather_for(last_piece(split(user_input_lower, KW_TEMPO_EM)), out)

\* lines 295-329: the branches after the list and reminder handlers
respond_rest(input, user_input_lower, chat_history_for_gemini, current_datetime, out) ==
    IF \/ Contains(KW_NOTICIAS_SOBRE, user_input_lower)
       \/ Contains(KW_RESUMO_DE_ARTIGO_SOBRE, user_input_lower)
       \/ Contains(KW_RESUMIR_ARTIGO, user_input_lower)
    THEN respond_news(user_input_lower, out)
    ELSE IF Contains(KW_TEMPO_EM, user_input_lower)
    THEN respond_weather(user_input_lower, out)
    ELSE IF Contains(KW_QUE_DIA_E_HOJE, user_input_lower) \/ Contains(KW_DATA_DE_HOJE, user_input_lower)
    THEN Answer("date", <<Lit("Hoje é ")>> \o strftime_dmY(current_datetime.date) \o <<Lit(".")>>, NoCall)
    ELSE IF Contains(KW_QUE_HORAS_SAO, user_input_lower)
    THEN Answer("time", <<Lit("São ")>> \o strftime_HM(current_datetime) \o <<Lit(".")>>, NoCall)
    ELSE IF \/ Contains(KW_PESQUISAR_POR, user_input_lower)
            \/ Contains(KW_PESQUISE_POR, user_input_lower)
            \/ Contains(KW_PROCURE_POR, user_input_lower)
    THEN respond_search(user_input_lower, out)
    ELSE Answer("llm", get_gemini_response(input, chat_history_for_gemini, out),
                Call("gemini", input, chat_history_for_gemini))

\* a variant of respond_first that asks the reminder handler before the list handler
respond_first_swapped(response_list, response_reminder, rest) ==
    IF Truthy(response_reminder) THEN Answer("reminder", response_reminder, NoCall)
    ELSE IF Truthy(response_list) THEN Answer("list", response_list, NoCall)
    ELSE rest

\* lines 287-292: the list handler, then the reminder handler, each answering
\* when it returns a non-empty string
respond_first(response_list, response_reminder, rest) ==
    IF Truthy(response_list) THEN Answer("list", response_list, NoCall)
    ELSE IF Truthy(response_reminder) THEN Answer("reminder", response_reminder, NoCall)
    ELSE rest

\* a variant of crystal_respond that hands the lower-cased utterance to the fallback
crystal_respond_lowered(input, chat_history_for_gemini, current_datetime, out) ==
    respond_first(create_or_add_list_item(input),
                  create_reminder_or_appointment(input, current_datetime),
                  respond_rest(lower(input), lower(input), chat_history_for_gemini, current_datetime, out))

crystal_respond(input, chat_history_for_gemini, current_datetime, out) ==
    respond_first(create_or_add_list_item(input),
                  create_reminder_or_appointment(input, current_datetime),
                  respond_rest(input, lower(input), chat_history_for_gemini, current_datetime, out))

\* the outcomes the call an answer made can have had
OutcomesFor(api) ==
    IF api = "weather" THEN WEATHER_OUTCOMES
    ELSE IF api = "search" THEN SEARCH_OUTCOMES
    ELSE IF api = "gemini" THEN GEMINI_OUTCOMES
    ELSE {HttpOutcome("no_call", {}, 0)}

ALL_OUTCOMES == WEATHER_OUTCOMES \cup SEARCH_OUTCOMES \cup GEMINI_OUTCOMES \cup OutcomesFor("none")

----------------------------------------------------------------------------
(* The session: the script body, run once per submitted utterance          *)

Msg(role, content) == DisplayEntry(role, content)
Entry(role, text) == ModelEntry(role, <<text>>)

initial_assistant_message ==
    <<Lit("Olá! Eu sou a Crystal, sua assistente pessoal. Estou aqui para ajudar. Como posso ser útil hoje?")>>

\* line 368: the persona instruction with the date and time of the first run
persona(current_datetime) ==
    <<Lit("Você é a Crystal, uma assistente pessoal amigável, prestativa e inteligente. [...] A data atual é ")>>
    \o Fmt02(current_datetime.date.d) \o <<Lit(" de {%B} de ")>> \o Fmt04(current_datetime.date.y)
    \o <<Lit(". A hora atual é ")>> \o strftime_HM(current_datetime)
    \o <<Lit(" {%p}. Sua localização principal é o Brasil.")>>

NoOutcome == HttpOutcome("no_call", {}, 0)

\* lines 360-372: the state after the first run of the script
SessionStart(t) ==
    /\ now = t
    /\ user_input = <<>>
    /\ crystal_response = <<>>
    /\ route = "start"
    /\ api_call = NoCall
    /\ api_outcome = NoOutcome
    /\ messages = <<Msg("assistant", initial_assistant_message)>>
    /\ gemini_history = <<Entry("user", persona(t)), Entry("model", initial_assistant_message)>>

\* lines 383 and 392: what one run appends to the display transcript
display_after_turn(msgs, input, response) ==
    IF response = RAISED THEN Append(msgs, Msg("user", input))
    ELSE msgs \o <<Msg("user", input), Msg("assistant", response)>>

\* line 387: the model transcript handed to crystal_respond
history_at_call(hist, input) == Append(hist, Entry("user", input))

\* a variant of history_after_turn that leaves the answer out of the model transcript
history_after_turn_unanswered(hist, input, response) == history_at_call(hist, input)

\* lines 387 and 396: what one run appends to the model transcript
history_after_turn(hist, input, response) ==
    IF response = RAISED THEN history_at_call(hist, input)
    ELSE Append(history_at_call(hist, input), Entry("model", response))

\* Bounds of the session
MaxTurns == 2

SESSION_NOWS ==
    {DateTime(Date(2025, 12, 31), 23, 59, 30), DateTime(Date(2026, 1, 1), 9, 5, 0)}

SESSION_UTTERANCES ==
    {<<Word("olá", 1), Word("crystal", 1)>>,
     Words(<<"obrigado">>),
     <<Word("que", 1)>> \o Words(<<"dia", "é", "hoje">>),
     Words(<<"tempo", "em", "lisboa">>),
     Words(<<"criar", "lista", "de", "compras", "com", "leite", "e", "pão">>),
     Words(<<"me", "lembre", "de", "pagar", "a", "conta", "amanhã", "às">>) \o <<TimeTok(8, "h", 0)>>,
     Words(<<"pesquisar", "por", "receita">>)}

\* the outcomes a session's calls have: each call succeeding or failing
SESSION_OUTCOMES ==
    {o \in ALL_OUTCOMES :
        o.kind \in {"no_call", "reply", "blocked_prompt", "deadline_exceeded", "cod_200",
                    "read_timeout", "items_html"}}

Init == \E t \in SESSION_NOWS : SessionStart(t)

\* lines 382-396: one run of the script with a submitted utterance
\* The run reads the clock as t, its outbound call (if any) does out.
Turn ==
    /\ Len(messages) < 1 + 2 * MaxTurns
    /\ \E input \in SESSION_UTTERANCES, t \in SESSION_NOWS, out \in SESSION_OUTCOMES :
          LET r == crystal_respond(input, history_at_call(gemini_history, input), t, out)
          IN  /\ out \in OutcomesFor(r.call.api)
              /\ now' = t
              /\ user_input' = input
              /\ crystal_response' = r.text
              /\ route' = r.route
              /\ api_call' = r.call
              /\ api_outcome' = out
              /\ messages' = display_after_turn(messages, input, r.text)
              /\ gemini_history' = history_after_turn(gemini_history, input, r.text)

Next == Turn

Spec == Init /\ [][Next]_vars

----------------------------------------------------------------------------
(* The functions on their own: each specification starts a session and     *)
(* applies one function to inputs drawn from bounded sets                  *)

(* crystal_respond over utterances made of one or more command fragments *)

MaxFragments == 2

ROUTE_FRAGMENTS ==
    {Words(<<"criar", "lista", "de", "compras", "com", "leite", "e", "pão">>),
     Words(<<"adicionar", "ovos", "à", "lista", "de", "compras">>),
     Words(<<"me", "lembre", "de", "pagar", "a", "conta", "amanhã", "às">>) \o <<TimeTok(8, "h", 0)>>,
     Words(<<"me", "lembre", "de", "pagar", "a", "conta">>),
     Words(<<"notícias", "sobre", "futebol">>),
     Words(<<"resumir", "artigo">>),
     Words(<<"tempo", "em", "lisboa">>),
     <<Word("que", 1)>> \o Words(<<"dia", "é", "hoje">>),
     Words(<<"data", "de", "hoje">>),
     Words(<<"que", "horas", "são">>),
     Words(<<"pesquisar", "por", "receita">>),
     Words(<<"procure", "por">>),
     <<Word("olá", 1), Word("crystal", 1)>>}

ROUTE_UTTERANCES ==
    {join(<<>>, fs) : fs \in UNION {[1..k -> ROUTE_FRAGMENTS] : k \in 1..MaxFragments}}

ROUTE_NOWS == {DateTime(Date(2025, 12, 31), 23, 59, 30), DateTime(Date(2024, 2, 29), 9, 5, 0)}

ROUTE_OUTCOMES ==
    {o \in ALL_OUTCOMES : o.kind \in {"no_call", "reply", "cod_200", "connect_timeout", "items_html", "no_items"}}

Respond ==
    /\ route = "start"
    /\ \E input \in ROUTE_UTTERANCES, out \in ROUTE_OUTCOMES :
          LET r == crystal_respond(input, history_at_call(gemini_history, input), now, out)
          IN  /\ out \in OutcomesFor(r.call.api)
              /\ user_input' = input
              /\ crystal_response' = r.text
              /\ route' = r.route
              /\ api_call' = r.call
              /\ api_outcome' = out
              /\ UNCHANGED <<now, messages, gemini_history>>

InitRoute == \E t \in ROUTE_NOWS : SessionStart(t)
NextRoute == Respond
SpecRoute == InitRoute /\ [][NextRoute]_vars

(* create_or_add_list_item over creation and addition commands *)

MaxItems == 2

LIST_NAMES ==
    {Words(<<"compras">>), Words(<<"tarefas">>), <<Word("feira", 1)>>,
     Words(<<"tarefas", "domésticas">>), Words(<<"pão", "com", "manteiga">>),
     Words(<<"com", "gelo">>)}

LIST_ITEMS ==
    {Words(<<"leite">>), Words(<<"pão">>), Words(<<"café", "com", "leite">>), <<Word("ovos", 1)>>}

\* "criar lista de <name> com <item1> e <item2> ... e <itemK>"
CreateCommand(name, items) ==
    <<Word("criar", 1)>> \o Words(<<"lista", "de">>) \o name \o <<W("com")>> \o join(<<W("e")>>, items)

\* "adicionar <item> à lista de <name>"
AddCommand(item, name) == <<W("adicionar")>> \o item \o KW_A_LISTA_DE \o name

ITEM_LISTS == UNION {[1..k -> LIST_ITEMS] : k \in 1..MaxItems}

CreateList ==
    /\ route = "start"
    /\ \E name \in LIST_NAMES, items \in ITEM_LISTS :
          /\ user_input' = CreateCommand(name, items)
          /\ crystal_response' = create_or_add_list_item(CreateCommand(name, items))
    /\ route' = "create_or_add_list_item"
    /\ api_call' = NoCall
    /\ api_outcome' = NoOutcome
    /\ UNCHANGED <<now, messages, gemini_history>>

AddToList ==
    /\ route = "start"
    /\ \E name \in LIST_NAMES, item \in LIST_ITEMS :
          /\ user_input' = AddCommand(item, name)
          /\ crystal_response' = create_or_add_list_item(AddCommand(item, name))
    /\ route' = "create_or_add_list_item"
    /\ api_call' = NoCall
    /\ api_outcome' = NoOutcome
    /\ UNCHANGED <<now, messages, gemini_history>>

InitList == \E t \in ROUTE_NOWS : SessionStart(t)
NextList == CreateList \/ AddToList
SpecList == InitList /\ [][NextList]_vars

(* create_reminder_or_appointment over reminder commands and current moments *)

\* the hours written "<N>h" run from 0 to MaxHour
MaxHour == 24
\* the current date runs over MaxDay + 1 consecutive days from a Monday
MaxDay == 6

REMINDER_DATES == {AddDays(Date(2024, 2, 26), k) : k \in 0..MaxDay} \cup {Date(2025, 12, 31)}

\* hour, minute and second of the current moment
REMINDER_CLOCKS == {<<0, 0, 0>>, <<8, 0, 0>>, <<8, 0, 30>>, <<10, 30, 0>>, <<13, 0, 0>>, <<23, 59, 30>>}

REMINDER_NOWS == {DateTime(d, c[1], c[2], c[3]) : d \in REMINDER_DATES, c \in REMINDER_CLOCKS}

REMINDER_TITLES == {Words(<<"pagar", "a", "conta">>), <<Word("ligar", 1)>> \o Words(<<"hoje", "para", "ana">>)}

DAY_WORDS == {<<W("amanhã")>>, <<W("hoje")>>}
WEEKDAY_REFS == {<<weekdays[i]>> : i \in 1..Len(weekdays)}
DIA_REFS ==
    {<<W("dia"), DateTok(25, 12, 0)>>, <<W("dia"), DateTok(27, 2, 0)>>, <<W("dia"), DateTok(29, 2, 0)>>,
     <<W("dia"), DateTok(30, 2, 0)>>, <<W("dia"), DateTok(1, 3, 0)>>,
     <<W("dia"), DateTok(1, 1, 2026)>>, <<W("dia"), DateTok(25, 12, 2020)>>}
DAY_REFS == {<<>>} \cup DAY_WORDS \cup WEEKDAY_REFS \cup DIA_REFS

TIME_REFS ==
    {<<TimeTok(8, "h", 0)>>, <<TimeTok(20, "h", 0)>>, <<TimeTok(8, "", 0)>>,
     <<TimeTok(8, ":", 30)>>, <<TimeTok(8, ":", 75)>>, <<>>}

MARKER_REFS == {<<>>} \cup REGEX_MARKERS

PREFIX_ME_LEMBRE_DE == Words(<<"me", "lembre", "de">>)

\* "<prefix> <title> <day> <às> <time> <marker>", each part possibly absent
RemindCommand(prefix, title, day, as, time, marker) == prefix \o title \o day \o as \o time \o marker

\* "me lembre de <title> <amanhã|hoje> às <N>h [marker]"
RemindAtHour ==
    /\ route = "start"
    /\ \E title \in REMINDER_TITLES, day \in DAY_WORDS, N \in 0..MaxHour, marker \in MARKER_REFS :
          /\ user_input' = RemindCommand(PREFIX_ME_LEMBRE_DE, title, day, <<W("às")>>,
                                         <<TimeTok(N, "h", 0)>>, marker)
          /\ crystal_response' =
                create_reminder_or_appointment(
                    RemindCommand(PREFIX_ME_LEMBRE_DE, title, day, <<W("às")>>,
                                  <<TimeTok(N, "h", 0)>>, marker), now)
    /\ route' = "create_reminder_or_appointment"
    /\ api_call' = NoCall
    /\ api_outcome' = NoOutcome
    /\ UNCHANGED <<now, messages, gemini_history>>

\* "Me lembre de pagar a conta [day] às [time] [marker]"
RemindOn ==
    /\ route = "start"
    /\ \E day \in DAY_REFS, as \in {<<W("às")>>}, time \in TIME_REFS,
          marker \in {<<>>, Words(<<"pm">>), Words(<<"da", "manhã">>)} :
          /\ user_input' = RemindCommand(<<Word("me", 1)>> \o Words(<<"lembre", "de">>),
                                         Words(<<"pagar", "a", "conta">>), day, as, time, marker)
          /\ crystal_response' =
                create_reminder_or_appointment(
                    RemindCommand(<<Word("me", 1)>> \o Words(<<"lembre", "de">>),
                                  Words(<<"pagar", "a", "conta">>), day, as, time, marker), now)
    /\ route' = "create_reminder_or_appointment"
    /\ api_call' = NoCall
    /\ api_outcome' = NoOutcome
    /\ UNCHANGED <<now, messages, gemini_history>>

\* "[por favor] <prefix> <title> [amanhã] [às|as] 8h"
RemindPhrase ==
    /\ route = "start"
    /\ \E prefix \in REMINDER_PREFIXES, title \in REMINDER_TITLES, day \in {<<W("amanhã")>>, <<>>},
          as \in {<<W("às")>>, <<W("as")>>, <<>>}, before \in {<<>>, Words(<<"por", "favor">>)} :
          /\ user_input' = before \o RemindCommand(prefix, title, day, as, <<TimeTok(8, "h", 0)>>, <<>>)
          /\ crystal_response' =
                create_reminder_or_appointment(
                    before \o RemindCommand(prefix, title, day, as, <<TimeTok(8, "h", 0)>>, <<>>), now)
    /\ route' = "create_reminder_or_appointment"
    /\ api_call' = NoCall
    /\ api_outcome' = NoOutcome
    /\ UNCHANGED <<now, messages, gemini_history>>

InitReminder == \E t \in REMINDER_NOWS : SessionStart(t)
NextReminder == RemindAtHour \/ RemindOn \/ RemindPhrase
SpecReminder == InitReminder /\ [][NextReminder]_vars

(* the three wrappers over every outcome of their outbound call *)

API_ARGS == {Words(<<"lisboa">>), Words(<<"são", "paulo">>), Words(<<"receita", "de", "bolo">>), <<Word("olá", 1)>>}

\* the string a caller of Google_Search sees, or its list of items
search_value(results) ==
    IF results.type = "str" THEN results.message
    ELSE IF results.type = "None" THEN None
    ELSE <<Lit("{items}")>>

CallWeather ==
    /\ route = "start"
    /\ \E city \in API_ARGS, out \in WEATHER_OUTCOMES :
          /\ user_input' = city
          /\ crystal_response' = get_weather(city, out)
          /\ api_call' = Call("weather", city, <<>>)
          /\ api_outcome' = out
    /\ route' = "get_weather"
    /\ UNCHANGED <<now, messages, gemini_history>>

CallSearch ==
    /\ route = "start"
    /\ \E query \in API_ARGS, out \in SEARCH_OUTCOMES :
          /\ user_input' = query
          /\ crystal_response' = search_value(Google_Search(query, out))
          /\ api_call' = Call("search", query, <<>>)
          /\ api_outcome' = out
    /\ route' = "Google_Search"
    /\ UNCHANGED <<now, messages, gemini_history>>

CallGemini ==
    /\ route = "start"
    /\ \E prompt \in API_ARGS, out \in GEMINI_OUTCOMES :
          /\ user_input' = prompt
          /\ crystal_response' = get_gemini_response(prompt, gemini_history, out)
          /\ api_call' = Call("gemini", prompt, gemini_history)
          /\ api_outcome' = out
    /\ route' = "get_gemini_response"
    /\ UNCHANGED <<now, messages, gemini_history>>

InitApi == \E t \in ROUTE_NOWS : SessionStart(t)
NextApi == CallWeather \/ CallSearch \/ CallGemini
SpecApi == InitApi /\ [][NextApi]_vars

----------------------------------------------------------------------------
(* Properties                                                              *)

\* Reading an answer back: the number a run of digit characters writes
IsDigit(tok) == \E n \in 0..9 : DigitLit(n) = tok
DigitVal(tok) == CHOOSE n \in 0..9 : DigitLit(n) = tok
AllDigits(text) == \A i \in 1..Len(text) : IsDigit(text[i])
RECURSIVE NumberOf(_)
NumberOf(digits) ==
    IF digits = <<>> THEN 0
    ELSE NumberOf(SubSeq(digits, 1, Len(digits) - 1)) * 10 + DigitVal(digits[Len(digits)])

\* text, from position i, reads "DD/MM/YYYY" and that is the date dt
ReadsDate(text, i, dt) ==
    /\ i + 9 <= Len(text)
    /\ AllDigits(SubSeq(text, i, i + 1)) /\ text[i + 2] = Lit("/")
    /\ AllDigits(SubSeq(text, i + 3, i + 4)) /\ text[i + 5] = Lit("/")
    /\ AllDigits(SubSeq(text, i + 6, i + 9))
    /\ NumberOf(SubSeq(text, i, i + 1)) = dt.d
    /\ NumberOf(SubSeq(text, i + 3, i + 4)) = dt.m
    /\ NumberOf(SubSeq(text, i + 6, i + 9)) = dt.y

IsPrefix(p, q) == Len(p) <= Len(q) /\ SubSeq(q, 1, Len(p)) = p

\* The intents in their order of precedence, and when an utterance matches one
INTENT_ORDER == <<"list", "reminder", "news", "weather", "date", "time", "search", "llm">>

Matches(intent, utterance) ==
    IF intent = "list"
    THEN match_create(lower(utterance)).ok \/ match_add(lower(utterance)).ok
    ELSE IF intent = "reminder" THEN reminder_match(lower(utterance)).ok
    ELSE IF intent = "news"
    THEN \/ Contains(KW_NOTICIAS_SOBRE, lower(utterance))
         \/ Contains(KW_RESUMO_DE_ARTIGO_SOBRE, lower(utterance))
         \/ Contains(KW_RESUMIR_ARTIGO, lower(utterance))
    ELSE IF intent = "weather" THEN Contains(KW_TEMPO_EM, lower(utterance))
    ELSE IF intent = "date"
    THEN \/ Contains(KW_QUE_DIA_E_HOJE, lower(utterance))
         \/ Contains(KW_DATA_DE_HOJE, lower(utterance))
    ELSE IF intent = "time" THEN Contains(KW_QUE_HORAS_SAO, lower(utterance))
    ELSE IF intent = "search"
    THEN \/ Contains(KW_PESQUISAR_POR, lower(utterance))
         \/ Contains(KW_PESQUISE_POR, lower(utterance))
         \/ Contains(KW_PROCURE_POR, lower(utterance))
    ELSE TRUE

Rank(intent) == CHOOSE k \in 1..Len(INTENT_ORDER) : INTENT_ORDER[k] = intent

NoIntentMatches(utterance) == \A k \in 1..(Len(INTENT_ORDER) - 1) : ~Matches(INTENT_ORDER[k], utterance)

\* C1: crystal_respond answers with the handler of the first intent, in the order
\* list, reminder, news, weather, date, time, web search, LLM fallback, that the
\* utterance matches: the intent that answered matches the utterance, no intent
\* earlier in the order does, and the fallback answers only when none of the
\* seven intents matches.
C1_FirstMatchWins ==
    route # "start" =>
        /\ \E k \in 1..Len(INTENT_ORDER) : INTENT_ORDER[k] = route
        /\ Matches(route, user_input)
        /\ \A k \in 1..(Rank(route) - 1) : ~Matches(INTENT_ORDER[k], user_input)
        /\ (route = "llm" => NoIntentMatches(user_input))

\* C1, its case: the weather handler answered an utterance that also asks for a
\* web search, an intent later in the order
C1_Witness ==
    /\ route = "weather"
    /\ Matches("search", user_input)
    /\ ~Matches("news", user_input)

\* the two transcripts agree entry by entry, the model transcript one entry ahead
LockStep ==
    /\ Len(gemini_history) = Len(messages) + 1
    /\ gemini_history[1].role = "user"
    /\ \A i \in 1..Len(messages) :
          /\ gemini_history[i + 1].parts = <<messages[i].content>>
          /\ \/ messages[i].role = "user" /\ gemini_history[i + 1].role = "user"
             \/ messages[i].role = "assistant" /\ gemini_history[i + 1].role = "model"

\* a step appends one user entry and then one assistant/model entry to each
\* transcript and leaves every earlier entry as it was
TurnAppended ==
    /\ Len(messages') = Len(messages) + 2
    /\ SubSeq(messages', 1, Len(messages)) = messages
    /\ messages'[Len(messages) + 1] = Msg("user", user_input')
    /\ messages'[Len(messages) + 2].role = "assistant"
    /\ Len(gemini_history') = Len(gemini_history) + 2
    /\ SubSeq(gemini_history', 1, Len(gemini_history)) = gemini_history
    /\ gemini_history'[Len(gemini_history) + 1] = Entry("user", user_input')
    /\ gemini_history'[Len(gemini_history) + 2].role = "model"

\* C2: after initialisation and after every turn, whatever handler answered and
\* whatever its outbound call did, the transcripts are in lock-step: the model
\* transcript is one entry longer (the persona seed), display entry i and model
\* entry i+1 carry the same text with roles user/user and assistant/model, each
\* turn appends exactly one user entry and then one assistant/model entry to
\* each, and no earlier entry is changed or removed.
C2_LockStep == LockStep /\ [][LockStep' /\ TurnAppended]_vars

\* C2, its case: two turns are completed, the last one answered with the error
\* message of a failed outbound call
C2_Witness ==
    /\ Len(messages) >= 5
    /\ LockStep
    /\ api_outcome.kind = "read_timeout"
    /\ messages[Len(messages)].content = MSG_WEATHER_TIMEOUT

\* C3: when the utterance matches none of the seven intents, the fallback chat
\* handler is called with the utterance exactly as typed and with a history that
\* holds the whole model transcript accumulated before the turn, in order.
C3_FallbackVerbatim ==
    [][NoIntentMatches(user_input') =>
          /\ route' = "llm"
          /\ api_call'.api = "gemini"
          /\ api_call'.arg = user_input'
          /\ IsPrefix(gemini_history, api_call'.history)]_vars

\* C3, its case: a second turn whose utterance, typed with capital letters,
\* matched no intent and went to the fallback with the first turn in its history
C3_Witness ==
    /\ route = "llm"
    /\ Len(messages) >= 5
    /\ user_input = <<Word("olá", 1), Word("crystal", 1)>>
    /\ api_call.arg = user_input
    /\ Len(api_call.history) >= 4

\* the answer is "Hoje é DD/MM/YYYY." with the date dt
IsTodayAnswer(text, dt) ==
    /\ Len(text) = 12
    /\ text[1] = Lit("Hoje é ")
    /\ ReadsDate(text, 2, dt)
    /\ text[12] = Lit(".")

\* C4 as stated: every utterance that contains "que dia é hoje" is answered with
\* today's date as DD/MM/YYYY, whatever else it contains.
C4_AlwaysToday ==
    (route # "start" /\ Contains(KW_QUE_DIA_E_HOJE, lower(user_input)))
        => IsTodayAnswer(crystal_response, now.date)

\* C4 amended: an utterance that contains "que dia é hoje" and matches none of
\* the list, reminder, news and weather intents is answered with today's date
\* as DD/MM/YYYY, whatever else it contains.
C4_TodayUnlessEarlierIntent ==
    (/\ route # "start"
     /\ Contains(KW_QUE_DIA_E_HOJE, lower(user_input))
     /\ \A k \in 1..(Rank("date") - 1) : ~Matches(INTENT_ORDER[k], user_input))
        => IsTodayAnswer(crystal_response, now.date)

\* C4, its case: "Que dia é hoje" together with a request for the time of day,
\* answered with the date
C4_Witness ==
    /\ route = "date"
    /\ Contains(KW_QUE_DIA_E_HOJE, lower(user_input))
    /\ Matches("time", user_input)
    /\ IsTodayAnswer(crystal_response, now.date)

\* Reading a reminder confirmation back:
\* "Lembrete criado: '<Title>' para DD/MM/YYYY às HH:MM:00[ (label)]. (Simulado)"
IsConfirmation(text) == text # <<>> /\ text[1] = Lit("Lembrete criado: '")
ParaPos(text) == CHOOSE i \in 1..Len(text) : text[i] = Lit("' para ")
ReportedTitle(text) == SubSeq(text, 2, ParaPos(text) - 1)
DateAt(text, p) ==
    Date(NumberOf(SubSeq(text, p + 7, p + 10)), NumberOf(SubSeq(text, p + 4, p + 5)),
         NumberOf(SubSeq(text, p + 1, p + 2)))
ReportedDate(text) == DateAt(text, ParaPos(text))
ReportedHour(text) == NumberOf(SubSeq(text, ParaPos(text) + 12, ParaPos(text) + 13))
ReportedMinute(text) == NumberOf(SubSeq(text, ParaPos(text) + 15, ParaPos(text) + 16))
LabelPos(text) == ParaPos(text) + 18

\* the text, with "' para " at position p, is a well-formed confirmation
WellFormedAt(text, p, dt) ==
    /\ p + 18 <= Len(text)
    /\ ReadsDate(text, p + 1, dt)
    /\ ValidDate(dt.y, dt.m, dt.d)
    /\ text[p + 11] = Lit(" às ")
    /\ AllDigits(SubSeq(text, p + 12, p + 13))
    /\ text[p + 14] = Lit(":")
    /\ AllDigits(SubSeq(text, p + 15, p + 16))
    /\ text[p + 17] = Lit(":00")
    /\ text[Len(text)] = Lit(". (Simulado)")

WellFormedConfirmation(text) ==
    /\ IsConfirmation(text)
    /\ \E i \in 1..Len(text) : text[i] = Lit("' para ")
    /\ WellFormedAt(text, ParaPos(text), ReportedDate(text))

\* the seconds from the current moment to the given date, hour and minute
SecondsAhead(date, hour, minute, current_datetime) ==
    (toordinal(date) - toordinal(current_datetime.date)) * 86400
    + (hour - current_datetime.hour) * 3600
    + (minute - current_datetime.minute) * 60
    - current_datetime.second

\* a date, hour and minute that make a moment not earlier than the current one
NotBefore(date, hour, minute, current_datetime) ==
    /\ hour <= 23
    /\ minute <= 59
    /\ SecondsAhead(date, hour, minute, current_datetime) >= 0

Reminded == route = "create_reminder_or_appointment"

\* C5: for every current moment, "me lembre de <title> amanhã às <N>h" with N in
\* 0..23 and no am/pm marker is confirmed, with the title, the calendar date one
\* day after today and the time N:00 exactly, no 12-hour shift and no am/pm label.
C5_TomorrowAtHour ==
    \A title \in REMINDER_TITLES, N \in 0..23 :
        (/\ Reminded
         /\ user_input = RemindCommand(PREFIX_ME_LEMBRE_DE, title, <<W("amanhã")>>, <<W("às")>>,
                                       <<TimeTok(N, "h", 0)>>, <<>>))
        => /\ WellFormedConfirmation(crystal_response)
           /\ lower(ReportedTitle(crystal_response)) = lower(title)
           /\ toordinal(ReportedDate(crystal_response)) = toordinal(now.date) + 1
           /\ ReportedHour(crystal_response) = N
           /\ ReportedMinute(crystal_response) = 0
           /\ LabelPos(crystal_response) = Len(crystal_response)

\* C5, its case: on 31/12/2025 at 23:59:30, "me lembre de pagar a conta amanhã às
\* 8h" is confirmed for 01/01/2026 at 08:00
C5_Witness ==
    /\ Reminded
    /\ now = DateTime(Date(2025, 12, 31), 23, 59, 30)
    /\ user_input = RemindCommand(PREFIX_ME_LEMBRE_DE, Words(<<"pagar", "a", "conta">>), <<W("amanhã")>>,
                                  <<W("às")>>, <<TimeTok(8, "h", 0)>>, <<>>)
    /\ WellFormedConfirmation(crystal_response)
    /\ ReportedDate(crystal_response) = Date(2026, 1, 1)
    /\ ReportedHour(crystal_response) = 8
    /\ ReportedMinute(crystal_response) = 0

\* the utterance names no day: no amanhã, hoje, weekday name or "dia D/M"
NoDayReference(utterance) ==
    \A i \in 1..Len(utterance) :
        /\ <<utterance[i]>> \notin DAY_WORDS \cup WEEKDAY_REFS
        /\ utterance[i] # W("dia")
        /\ utterance[i].k # "d"

\* the utterance ends with a time of day that is before the current moment, read
\* as written and, for an hour below 12, read as an afternoon hour too
EndsWithPastTime(utterance, current_datetime) ==
    /\ utterance # <<>>
    /\ utterance[Len(utterance)].k = "t"
    /\ utterance[Len(utterance)].b <= 59
    /\ MinuteOfDay(IF utterance[Len(utterance)].a < 12
                   THEN utterance[Len(utterance)].a + 12
                   ELSE utterance[Len(utterance)].a, utterance[Len(utterance)].b)
          < MinuteOfDay(current_datetime.hour, current_datetime.minute)

\* C6 as stated: a reminder utterance that gives a time of day already past the
\* current moment and no day reference is answered with the past-scheduling
\* rejection message.
C6_PastTimeWithoutDayRejected ==
    (/\ Reminded
     /\ \E prefix \in REMINDER_PREFIXES : Contains(prefix, lower(user_input))
     /\ NoDayReference(lower(user_input))
     /\ EndsWithPastTime(user_input, now))
        => crystal_response = MSG_PAST

\* C6, the failing case: at 23:59:30, "me lembre de pagar a conta às 8h" gets no
\* answer from the reminder handler (None: the regex demands a day reference)
C6_Witness ==
    /\ Reminded
    /\ now.hour = 23
    /\ user_input = RemindCommand(PREFIX_ME_LEMBRE_DE, Words(<<"pagar", "a", "conta">>), <<>>,
                                  <<W("às")>>, <<TimeTok(8, "h", 0)>>, <<>>)
    /\ crystal_response = None

\* the date and time the handler resolves from a match precede the current moment
ResolvedBefore(match, d, h, current_datetime) ==
    /\ ~d.err
    /\ h.hour <= 23
    /\ match.time.b <= 59
    /\ SecondsAhead(d.start_date, h.hour, match.time.b, current_datetime) < 0

ResolvesBefore(match, d, current_datetime) ==
    ResolvedBefore(match, d, parse_hour(match.time, match.marker, d.start_date, current_datetime),
                   current_datetime)

ResolvesToPast(match, current_datetime) ==
    ResolvesBefore(match, parse_date(match.when, match.time, current_datetime), current_datetime)

\* C9: for every current moment and every utterance the reminder regex matches,
\* a "Lembrete criado" confirmation reports a date-time not earlier than the
\* current moment, and when the date and time resolved from the utterance (after
\* day resolution, am/pm marker and PM heuristic) precede the current moment the
\* answer is the past-scheduling rejection message.
C9_NeverInThePast ==
    (Reminded /\ reminder_match(lower(user_input)).ok)
        => /\ IsConfirmation(crystal_response)
                => /\ WellFormedConfirmation(crystal_response)
                   /\ NotBefore(ReportedDate(crystal_response), ReportedHour(crystal_response),
                                ReportedMinute(crystal_response), now)
           /\ ResolvesToPast(reminder_match(lower(user_input)), now)
                => crystal_response = MSG_PAST

\* C9, its case: a reminder for today at 20h, asked at 23:59:30, is refused
C9_Witness ==
    /\ Reminded
    /\ now.hour = 23
    /\ user_input = RemindCommand(PREFIX_ME_LEMBRE_DE, Words(<<"pagar", "a", "conta">>), <<W("hoje")>>,
                                  <<W("às")>>, <<TimeTok(20, "h", 0)>>, <<>>)
    /\ ResolvesToPast(reminder_match(lower(user_input)), now)
    /\ crystal_response = MSG_PAST

\* the answer confirms a reminder on the next date that falls on weekday number
\* target (Monday is 0): today when the time reported is still to come, seven
\* days ahead when it has passed
ConfirmsNextWeekday(text, target, current_datetime) ==
    /\ WellFormedConfirmation(text)
    /\ weekday(ReportedDate(text)) = target
    /\ toordinal(ReportedDate(text)) - toordinal(current_datetime.date) \in 0..7
    /\ toordinal(ReportedDate(text)) = toordinal(current_datetime.date)
          => SecondsAhead(current_datetime.date, ReportedHour(text), ReportedMinute(text),
                          current_datetime) > 0
    /\ toordinal(ReportedDate(text)) = toordinal(current_datetime.date) + 7
          => SecondsAhead(current_datetime.date, ReportedHour(text), ReportedMinute(text),
                          current_datetime) <= 0

\* C10 as stated: for each of the seven weekday names used as the day reference
\* of a reminder, and every current moment, the reminder resolves to the next
\* date that falls on that weekday: 1..6 days ahead when today is another
\* weekday, today when the requested time is still to come, 7 days ahead when it
\* has passed.
C10_NextWeekday ==
    \A i \in 1..Len(weekdays), time \in TIME_REFS, marker \in MARKER_REFS :
        (/\ Reminded
         /\ time # <<>>
         /\ time[1].b <= 59
         /\ user_input = RemindCommand(<<Word("me", 1)>> \o Words(<<"lembre", "de">>),
                                       Words(<<"pagar", "a", "conta">>), <<weekdays[i]>>,
                                       <<W("às")>>, time, marker))
        => ConfirmsNextWeekday(crystal_response, i - 1, now)

\* C10, the failing case: "Me lembre de pagar a conta segunda-feira às 8h" gets no
\* answer from the reminder handler (None: the regex does not list segunda-feira)
C10_Witness ==
    /\ Reminded
    /\ user_input = RemindCommand(<<Word("me", 1)>> \o Words(<<"lembre", "de">>),
                                  Words(<<"pagar", "a", "conta">>), <<W("segunda-feira")>>,
                                  <<W("às")>>, <<TimeTok(8, "h", 0)>>, <<>>)
    /\ crystal_response = None

ApiWrappers == {"get_weather", "Google_Search", "get_gemini_response"}

\* C7 as stated: for each of the three API wrappers and every failure of the
\* outbound call, the wrapper returns a user-facing message and no exception
\* reaches the caller; a timeout of the weather or search call, a connect timeout
\* included, yields that wrapper's timeout message ("demorou muito e expirou").
C7_FailuresApologised ==
    (route \in ApiWrappers /\ api_outcome.classes # {})
        => /\ crystal_response # RAISED
           /\ crystal_response # None
           /\ (route = "get_weather" /\ api_outcome.kind \in {"read_timeout", "connect_timeout"})
                 => crystal_response = MSG_WEATHER_TIMEOUT
           /\ (route = "Google_Search" /\ api_outcome.kind \in {"read_timeout", "connect_timeout"})
                 => crystal_response = MSG_SEARCH_TIMEOUT

\* C7, the failing case: a connect timeout of the weather call is answered with
\* the connection-error message
C7_Witness ==
    /\ route = "get_weather"
    /\ api_outcome.kind = "connect_timeout"
    /\ crystal_response = MSG_WEATHER_CONNECTION

\* the answer confirms the creation of a list and holds, letter case aside, the
\* whole name and each of the items
ConfirmsList(text, name, items) ==
    /\ text # <<>>
    /\ text[1] = Lit("Criei a lista '")
    /\ Contains(lower(name), lower(text))
    /\ \A k \in 1..Len(items) : Contains(lower(items[k]), lower(text))

\* the command left the session as it was: the model holds no list, and the two
\* transcripts are those of the session start
NoListState ==
    /\ messages = <<Msg("assistant", initial_assistant_message)>>
    /\ Len(gemini_history) = 2

\* C8 as stated: every command "criar lista de <name> com <item1> e ... e <itemK>"
\* is answered with a creation confirmation that holds the whole name and each
\* item, also when the name or an item holds the word "com"; no list state is
\* created.
C8_CreationEchoesAll ==
    \A name \in LIST_NAMES, items \in ITEM_LISTS :
        (route = "create_or_add_list_item" /\ user_input = CreateCommand(name, items))
            => ConfirmsList(crystal_response, name, items) /\ NoListState

\* the name holds no word "com" after its first word
NoComInside(name) == \A i \in 2..Len(name) : name[i] # W("com")

\* C8 amended: every command "criar lista de <name> com <item1> e ... e <itemK>"
\* whose name holds no word "com" after its first word is answered with a
\* creation confirmation that holds the whole name and each item, also when an
\* item holds the word "com"; no list state is created.
C8_CreationEchoesUnlessComInName ==
    \A name \in LIST_NAMES, items \in ITEM_LISTS :
        (/\ route = "create_or_add_list_item"
         /\ user_input = CreateCommand(name, items)
         /\ NoComInside(name))
            => ConfirmsList(crystal_response, name, items) /\ NoListState

\* C8, its case: the list "com gelo" created with the items "café com leite" and
\* "Ovos"
C8_Witness ==
    /\ route = "create_or_add_list_item"
    /\ user_input = CreateCommand(Words(<<"com", "gelo">>),
                                  <<Words(<<"café", "com", "leite">>), <<Word("ovos", 1)>>>>)
    /\ ConfirmsList(crystal_response, Words(<<"com", "gelo">>),
                    <<Words(<<"café", "com", "leite">>), <<Word("ovos", 1)>>>>)
    /\ NoListState

\* the markers that name the afternoon or the evening
AFTERNOON_MARKERS == {Words(<<"pm">>), Words(<<"da", "tarde">>), Words(<<"da", "noite">>)}

\* the hour of the 24-hour clock that hour H of the 12-hour clock is under a marker
Hour24(H, marker) ==
    IF marker \in AFTERNOON_MARKERS
    THEN (IF H = 12 THEN 12 ELSE H + 12)
    ELSE (IF H = 12 THEN 0 ELSE H)

\* C11 as stated: a reminder with an explicit am/pm marker has its hour converted
\* to the 24-hour clock: under "pm", "da tarde" or "da noite" an hour H in 1..11
\* becomes H + 12 and 12 stays 12; under "am" or "da manhã" an hour H in 1..11
\* stays H and 12 becomes 0; the PM heuristic is not applied.  Stated for
\* reminders for tomorrow, which are never in the past.
C11_MarkerConvertsHour ==
    \A title \in REMINDER_TITLES, H \in 1..12, marker \in REGEX_MARKERS :
        (/\ Reminded
         /\ user_input = RemindCommand(PREFIX_ME_LEMBRE_DE, title, <<W("amanhã")>>, <<W("às")>>,
                                       <<TimeTok(H, "h", 0)>>, marker))
        => /\ WellFormedConfirmation(crystal_response)
           /\ ReportedHour(crystal_response) = Hour24(H, marker)
           /\ ReportedMinute(crystal_response) = 0

\* C11, the failing case: "me lembre de pagar a conta amanhã às 3h da tarde" is
\* confirmed for 03:00
C11_Witness ==
    /\ Reminded
    /\ user_input = RemindCommand(PREFIX_ME_LEMBRE_DE, Words(<<"pagar", "a", "conta">>), <<W("amanhã")>>,
                                  <<W("às")>>, <<TimeTok(3, "h", 0)>>, Words(<<"da", "tarde">>))
    /\ WellFormedConfirmation(crystal_response)
    /\ ReportedHour(crystal_response) = 3

\* the answer is the past-scheduling rejection or a confirmation at hour:00
RejectedOrConfirmedAt(text, hour) ==
    \/ text = MSG_PAST
    \/ /\ WellFormedConfirmation(text)
       /\ ReportedHour(text) = hour
       /\ ReportedMinute(text) = 0

\* C12 as stated: a reminder with no am/pm marker that resolves to today's date
\* and asks for a time H:MM with H in 0..12 that lies before the current moment
\* (hour and minute compared) is shifted to (H+12):MM, and is then confirmed at
\* the shifted time or refused as past, with no other answer; a time that is not
\* before the current moment, or whose hour is above 12, is left unshifted.
\* Stated for "me lembre de <title> hoje às <H>h", H in 0..23.
C12_ShiftsPastHourToAfternoon ==
    \A title \in REMINDER_TITLES, H \in 0..23 :
        (/\ Reminded
         /\ user_input = RemindCommand(PREFIX_ME_LEMBRE_DE, title, <<W("hoje")>>, <<W("às")>>,
                                       <<TimeTok(H, "h", 0)>>, <<>>))
        => IF H <= 12 /\ MinuteOfDay(H, 0) < MinuteOfDay(now.hour, now.minute)
           THEN RejectedOrConfirmedAt(crystal_response, H + 12)
           ELSE RejectedOrConfirmedAt(crystal_response, H)

\* C12, the failing case: at 13:00, "me lembre de pagar a conta hoje às 12h" is
\* answered with the not-understood message (the shifted hour is 24)
C12_Witness ==
    /\ Reminded
    /\ now.hour = 13
    /\ user_input = RemindCommand(PREFIX_ME_LEMBRE_DE, Words(<<"pagar", "a", "conta">>), <<W("hoje")>>,
                                  <<W("às")>>, <<TimeTok(12, "h", 0)>>, <<>>)
    /\ crystal_response = MSG_NOT_UNDERSTOOD

\* the conversation the language model receives on a fallback turn: the history
\* given to start_chat, then the prompt given to send_message as a user entry
Conversation(call) == Append(call.history, Entry("user", call.arg))

\* the roles run user, model, user, model, ...
Alternates(entries) ==
    \A i \in 1..Len(entries) : entries[i].role = (IF i % 2 = 1 THEN "user" ELSE "model")

\* the number of user entries that carry the given text
RECURSIVE TimesSaid(_, _)
TimesSaid(entries, text) ==
    IF entries = <<>> THEN 0
    ELSE TimesSaid(Tail(entries), text)
         + (IF Head(entries) = Entry("user", text) THEN 1 ELSE 0)

\* C13 as stated: on every fallback turn the conversation the language model
\* receives alternates the roles user, model, user, model, ..., the history
\* handed to the fallback ends with a model entry, and the utterance sent as the
\* prompt is not in the history a second time (it occurs in the conversation
\* once more than in the transcript before the turn).
C13_FallbackConversationAlternates ==
    [][route' = "llm" =>
          /\ Alternates(Conversation(api_call'))
          /\ api_call'.history[Len(api_call'.history)].role = "model"
          /\ TimesSaid(Conversation(api_call'), user_input') = TimesSaid(gemini_history, user_input') + 1]_vars

\* C13, the failing case: on the first turn "Olá Crystal" goes to the fallback
\* with a history of three entries whose last one is the utterance itself
C13_Witness ==
    /\ route = "llm"
    /\ user_input = <<Word("olá", 1), Word("crystal", 1)>>
    /\ api_call.arg = user_input
    /\ Len(api_call.history) = 3
    /\ api_call.history[3] = Entry("user", user_input)

====
